---------------------------- MODULE Spec2Model ----------------------------
(***************************************************************************)
(* A model of the one-vs-all logistic regression classifier of             *)
(* src/src/utils/logisticRegression.ts (the exported singleton             *)
(* smogPredictor) and of the calls made on it (Spec), of the Dashboard     *)
(* component that trains and uses it (DashboardSpec) and of the data       *)
(* generator of src/src/utils/dataGenerator.ts (GeneratorSpec).  Training  *)
(* is also modelled in steps: one pass of the epoch loop on its own        *)
(* (EpochSpec), train with a step per pass (TrainingSpec), and the six     *)
(* binary trainings interleaved (InterleavedSpec).                         *)
(*                                                                         *)
(* JavaScript numbers are modelled as tagged values: a finite number is a  *)
(* fixed-point integer with Scale units to 1.0, and NaN, +Infinity and     *)
(* -Infinity are values of their own that follow the IEEE-754 rules the    *)
(* code relies on (0/0 = NaN, x/0 = +-Infinity, NaN is equal to nothing,   *)
(* Math.max of nothing is -Infinity).  Negative zero is not modelled.      *)
(* Arrays are functions on 0..n-1, as the code indexes them.               *)
(***************************************************************************)
EXTENDS Integers, Sequences, FiniteSets, TLC

(***************************************************************************)
(* Bounds of the model.                                                    *)
(***************************************************************************)
\* the code runs 1000 epochs per class (logisticRegression.ts:45); the model
\* runs MaxEpochs full passes
MaxEpochs == 2
\* longest record sequence passed to train or evaluate
MaxRecords == 2
\* number of records of the generated array
MaxData == 4

\* fixed-point units to 1.0
Scale == 10 ^ 4

(***************************************************************************)
(* Program constants.                                                      *)
(***************************************************************************)
numClasses == 6
NumFeatures == 6
RocPoints == 11

(***************************************************************************)
(* Numbers.                                                                *)
(***************************************************************************)
Fin(n) == [t |-> "fin", v |-> n]
NaN == [t |-> "nan", v |-> 0]
PosInf == [t |-> "inf", v |-> 1]
NegInf == [t |-> "inf", v |-> -1]
Zero == Fin(0)
One == Fin(Scale)
\* the number n (an integer of the program) as a fixed-point value
Num(n) == Fin(n * Scale)

IsNaN(x) == x.t = "nan"
IsFin(x) == x.t = "fin"
IsInf(x) == x.t = "inf"

Abs(n) == IF n < 0 THEN -n ELSE n
Sgn(n) == IF n < 0 THEN -1 ELSE 1
\* a / b rounded to the nearest integer, b # 0
RDiv(a, b) ==
    LET q == Abs(a) \div Abs(b)
        r == Abs(a) % Abs(b)
    IN  Sgn(a) * Sgn(b) * (IF r >= Abs(b) - r THEN q + 1 ELSE q)

FNeg(x) == IF IsNaN(x) THEN NaN ELSE [t |-> x.t, v |-> -x.v]

FAdd(x, y) ==
    IF IsNaN(x) \/ IsNaN(y) THEN NaN
    ELSE IF IsInf(x) /\ IsInf(y) THEN (IF x.v = y.v THEN x ELSE NaN)
    ELSE IF IsInf(x) THEN x
    ELSE IF IsInf(y) THEN y
    ELSE Fin(x.v + y.v)

FSub(x, y) == FAdd(x, FNeg(y))

FMul(x, y) ==
    IF IsNaN(x) \/ IsNaN(y) THEN NaN
    ELSE IF IsInf(x) \/ IsInf(y)
         THEN (IF x.v = 0 \/ y.v = 0 THEN NaN
               ELSE [t |-> "inf", v |-> Sgn(x.v) * Sgn(y.v)])
    ELSE Fin(RDiv(x.v * y.v, Scale))

FDiv(x, y) ==
    IF IsNaN(x) \/ IsNaN(y) THEN NaN
    ELSE IF IsInf(x) THEN (IF IsInf(y) THEN NaN
                           ELSE [t |-> "inf", v |-> x.v * Sgn(y.v)])
    ELSE IF IsInf(y) THEN Zero
    ELSE IF y.v = 0 THEN (IF x.v = 0 THEN NaN
                          ELSE [t |-> "inf", v |-> Sgn(x.v)])
    ELSE Fin(RDiv(x.v * Scale, y.v))

\* x < y and x === y on numbers: false whenever either side is NaN
FLt(x, y) ==
    /\ ~IsNaN(x) /\ ~IsNaN(y)
    /\ IF IsInf(x) THEN x.v = -1 /\ y # NegInf
       ELSE IF IsInf(y) THEN y.v = 1
       ELSE x.v < y.v
FEq(x, y) == ~IsNaN(x) /\ ~IsNaN(y) /\ x = y
FLe(x, y) == FLt(x, y) \/ FEq(x, y)

FAbs(x) == IF IsNaN(x) THEN NaN ELSE [t |-> x.t, v |-> Abs(x.v)]

\* Math.max(a, b) and Math.min(a, b): NaN if either argument is NaN
Max2(x, y) == IF IsNaN(x) \/ IsNaN(y) THEN NaN ELSE IF FLt(x, y) THEN y ELSE x
Min2(x, y) == IF IsNaN(x) \/ IsNaN(y) THEN NaN ELSE IF FLt(y, x) THEN y ELSE x

\* the guard left out: the quotient as it is
OrZeroMissing(x) == x
\* x || 0: a falsy number (NaN or 0) becomes 0
OrZero(x) == IF IsNaN(x) \/ x = Zero THEN Zero ELSE x

(***************************************************************************)
(* Arrays: functions on 0..n-1.                                            *)
(***************************************************************************)
Length(a) == Cardinality(DOMAIN a)
\* the array f as an explicit table: TLC otherwise re-evaluates the expression
\* of an entry every time the entry is read
Table(f) == f @@ << >>
EmptyArr == << >>

RECURSIVE MaxFrom(_, _, _)
MaxFrom(a, i, acc) ==
    IF i >= Length(a) THEN acc ELSE MaxFrom(a, i + 1, Max2(acc, a[i]))
\* Math.max(...a): -Infinity for the empty array, NaN if any entry is NaN
MathMax(a) == MaxFrom(a, 0, NegInf)

RECURSIVE MinFrom(_, _, _)
MinFrom(a, i, acc) ==
    IF i >= Length(a) THEN acc ELSE MinFrom(a, i + 1, Min2(acc, a[i]))
\* the first entry taken for the minimum
MathMinFirst(a) == IF Length(a) = 0 THEN PosInf ELSE a[0]
\* Math.min(...a): +Infinity for the empty array, NaN if any entry is NaN
MathMin(a) == MinFrom(a, 0, PosInf)

\* a.indexOf(x): the first index holding a value === x, or -1
IndexOf(a, x) ==
    IF \E i \in DOMAIN a : FEq(a[i], x)
    THEN CHOOSE i \in DOMAIN a :
            FEq(a[i], x) /\ \A k \in DOMAIN a : FEq(a[k], x) => i <= k
    ELSE -1

\* a.reduce((sum, v) => sum + v, init)
RECURSIVE SumFrom(_, _, _)
SumFrom(a, i, acc) ==
    IF i >= Length(a) THEN acc ELSE SumFrom(a, i + 1, FAdd(acc, a[i]))

(***************************************************************************)
(* Records and inputs.  A record carries the six readings and its class    *)
(* label smogLevel.value.  The records come from one generated array of    *)
(* MaxData records; five of the readings differ between any two records,   *)
(* humidity is shared by records 1 and 2, 3 and 4, ...  The arrays passed  *)
(* to train and evaluate are the runs of up to MaxRecords consecutive      *)
(* records of it (taken cyclically).                                       *)
(***************************************************************************)
Generated(k) ==
    [pm25 |-> k + 1, temperature |-> 2 * k, humidity |-> (k + 1) \div 2,
     windSpeed |-> 2 * MaxData - k, visibility |-> MaxData - k,
     pressure |-> 3 * k + 1, smogLevel |-> [value |-> k % numClasses]]
Samples == {Generated(k) : k \in 0..(MaxData - 1)}

Slice(from, n) == Table([i \in 0..(n - 1) |-> Generated((from + i) % MaxData)])
DataSets == {Slice(from, n) : from \in 0..(MaxData - 1), n \in 0..MaxRecords}

\* a PredictionInput: the six readings without the label
InputOf(d) ==
    [pm25 |-> d.pm25, temperature |-> d.temperature, humidity |-> d.humidity,
     windSpeed |-> d.windSpeed, visibility |-> d.visibility,
     pressure |-> d.pressure]
Uniform(n) ==
    [pm25 |-> n, temperature |-> n, humidity |-> n, windSpeed |-> n,
     visibility |-> n, pressure |-> n]
PredictionInputs ==
    {InputOf(d) : d \in Samples} \cup {Uniform(0), Uniform(3 * MaxData)}

\* Math.random(): the values it returns are one of two streams, chosen by
\* each call that draws from it.  Stream "half" returns 0.5 every time,
\* stream "varied" returns the tenths 0.3, 0.0, 0.7, 0.4, ... by draw number
Seeds == {"half", "varied"}
RandomDraw(seed, k) == IF seed = "half" THEN 5 ELSE (7 * k + 3) % 10
Random(seed, k) == Fin(RandomDraw(seed, k) * (Scale \div 10))

(***************************************************************************)
(* sigmoid, normalizeFeatures, extractFeatures.                            *)
(***************************************************************************)
\* 1/(1+exp(-k)) for k = 0..10 in units of 1/Scale; from 10 on the quotient
\* rounds to 1.0, as the double does for large z
SigmoidTable ==
    <<5000, 7311, 8808, 9526, 9820, 9933, 9975, 9991, 9997, 9999, 10000>>
\* 1/(1+exp(-u)) for u >= 0 units, interpolated between the table's points
SigmoidPos(u) ==
    LET k == u \div Scale
        r == u % Scale
    IN  IF k >= 10 THEN Scale
        ELSE SigmoidTable[k + 1]
             + RDiv((SigmoidTable[k + 2] - SigmoidTable[k + 1]) * r, Scale)
\* 1/(1+exp(-u)) for any finite u; exp of a clipped argument is finite, so
\* the quotient is never 0
Logistic(u) ==
    IF u >= 0 THEN SigmoidPos(u)
    ELSE IF Scale - SigmoidPos(-u) < 1 THEN 1 ELSE Scale - SigmoidPos(-u)

sigmoid(z) ==
    LET c == Max2(Num(-500), Min2(Num(500), z))
    IN  IF IsNaN(c) THEN NaN ELSE Fin(Logistic(c.v))

\* the division taken by the maximum instead of the range
NormalizeRowByMax(row, mins, maxs) ==
    Table([i \in DOMAIN row |-> FDiv(FSub(row[i], mins[i]), maxs[i])])
\* (value - mins[i]) / (maxs[i] - mins[i]) for one row
NormalizeRow(row, mins, maxs) ==
    Table([i \in DOMAIN row |-> FDiv(FSub(row[i], mins[i]), FSub(maxs[i], mins[i]))])
normalizeFeatures(data, mins, maxs) ==
    Table([r \in DOMAIN data |-> NormalizeRow(data[r], mins, maxs)])

FeatureRow(d) ==
    Table([i \in 0..(NumFeatures - 1) |->
        Num(CASE i = 0 -> d.pm25 [] i = 1 -> d.temperature
              [] i = 2 -> d.humidity [] i = 3 -> d.windSpeed
              [] i = 4 -> d.visibility [] OTHER -> d.pressure)])
Column(features, i) == Table([r \in DOMAIN features |-> features[r][i]])
\* features[0].map(...) throws a TypeError on an empty data array
extractFeatures(data) ==
    IF Length(data) = 0 THEN [threw |-> TRUE]
    ELSE LET features == Table([r \in DOMAIN data |-> FeatureRow(data[r])])
         IN  [threw |-> FALSE,
              features |-> features,
              labels |-> Table([r \in DOMAIN data |-> data[r].smogLevel.value]),
              mins |-> Table([i \in DOMAIN features[0] |-> MathMin(Column(features, i))]),
              maxs |-> Table([i \in DOMAIN features[0] |-> MathMax(Column(features, i))])]

(***************************************************************************)
(* trainBinaryClassifier.                                                  *)
(***************************************************************************)
learningRate == Fin(Scale \div 100)
lambda == Fin(Scale \div 100)

\* x.reduce((sum, xi, j) => sum + xi * weights[j], bias)
RECURSIVE DotFrom(_, _, _, _)
DotFrom(x, weights, j, acc) ==
    IF j >= Length(x) THEN acc
    ELSE DotFrom(x, weights, j + 1, FAdd(acc, FMul(x[j], weights[j])))
Forward(x, weights, bias) == sigmoid(DotFrom(x, weights, 0, bias))

\* error = prediction - y for every sample, from the weights and bias the
\* epoch started with
Errors(features, binaryLabels, weights, bias) ==
    Table([i \in DOMAIN features |->
        FSub(Forward(features[i], weights, bias), Num(binaryLabels[i]))])

\* weightGradients[j] after the loop over the samples
RECURSIVE WeightGradient(_, _, _, _, _)
WeightGradient(features, errs, j, i, acc) ==
    IF i >= Length(features) THEN acc
    ELSE WeightGradient(features, errs, j, i + 1,
                        FAdd(acc, FMul(errs[i], features[i][j])))

\* the weight update of one epoch:
\* weights[j] -= learningRate * (weightGradients[j] / features.length + lambda * weights[j])
UpdateWeight(w, gradient, n) ==
    FSub(w, FMul(learningRate, FAdd(FDiv(gradient, Num(n)), FMul(lambda, w))))
\* the bias shrunk by the L2 term as the weights are
UpdateBiasRegularized(bias, gradient, n) ==
    FSub(bias, FMul(learningRate,
                    FAdd(FDiv(gradient, Num(n)), FMul(lambda, bias))))
\* bias -= learningRate * (biasGradient / features.length)
UpdateBias(bias, gradient, n) ==
    FSub(bias, FMul(learningRate, FDiv(gradient, Num(n))))

\* one pass of the epoch loop.  The loss it also sums is used by nothing and
\* the learning-rate decay branch is empty, so neither is modelled
Epoch(features, binaryLabels, m) ==
    LET errs == Errors(features, binaryLabels, m.weights, m.bias)
        n == Length(features)
    IN  [weights |-> Table([j \in DOMAIN m.weights |->
                         UpdateWeight(m.weights[j],
                                      WeightGradient(features, errs, j, 0, Zero), n)]),
         bias |-> UpdateBias(m.bias, SumFrom(errs, 0, Zero), n)]

RECURSIVE Epochs(_, _, _, _)
Epochs(features, binaryLabels, m, epoch) ==
    IF epoch >= MaxEpochs THEN m
    ELSE Epochs(features, binaryLabels, Epoch(features, binaryLabels, m), epoch + 1)

\* (Math.random() - 0.5) * 0.01, the j-th draw made for targetClass
InitialWeight(seed, targetClass, j) ==
    FMul(FSub(Random(seed, targetClass * NumFeatures + j), Fin(Scale \div 2)),
         Fin(Scale \div 100))

\* the positive examples taken from the class after targetClass
TrainBinaryNextClass(features, labels, targetClass, seed) ==
    LET binaryLabels == Table([i \in DOMAIN labels |->
                            IF labels[i] = (targetClass + 1) % numClasses
                            THEN 1 ELSE 0])
        numFeatures == Length(features[0])
        init == [weights |-> Table([j \in 0..(numFeatures - 1) |->
                                 InitialWeight(seed, targetClass, j)]),
                 bias |-> Zero]
        m == Epochs(features, binaryLabels, init, 0)
    IN  [weights |-> m.weights, bias |-> m.bias, trained |-> TRUE]
trainBinaryClassifier(features, labels, targetClass, seed) ==
    LET binaryLabels == Table([i \in DOMAIN labels |->
                            IF labels[i] = targetClass THEN 1 ELSE 0])
        numFeatures == Length(features[0])
        init == [weights |-> Table([j \in 0..(numFeatures - 1) |->
                                 InitialWeight(seed, targetClass, j)]),
                 bias |-> Zero]
        m == Epochs(features, binaryLabels, init, 0)
    IN  [weights |-> m.weights, bias |-> m.bias, trained |-> TRUE]

(***************************************************************************)
(* train: what it leaves in the classifier.                                *)
(***************************************************************************)
TrainModels(data, seed) ==
    LET ex == extractFeatures(data)
        normalizedFeatures == normalizeFeatures(ex.features, ex.mins, ex.maxs)
    IN  Table([classLabel \in 0..(numClasses - 1) |->
            trainBinaryClassifier(normalizedFeatures, ex.labels, classLabel, seed)])

(***************************************************************************)
(* The classifier object: its fields models, featureMins, featureMaxs      *)
(* (numClasses and featureNames never change).                             *)
(***************************************************************************)
featureNames ==
    Table([i \in 0..(NumFeatures - 1) |->
        CASE i = 0 -> "PM2.5" [] i = 1 -> "Temperature" [] i = 2 -> "Humidity"
          [] i = 3 -> "Wind Speed" [] i = 4 -> "Visibility" [] OTHER -> "Pressure"])

\* new MultiClassLogisticRegression()
NewClassifier ==
    [models |-> EmptyArr, featureMins |-> EmptyArr, featureMaxs |-> EmptyArr]

\* a[i] read as a number: an index outside the array reads undefined, which
\* arithmetic turns into NaN
Elem(a, i) == IF i \in DOMAIN a THEN a[i] ELSE NaN

\* the fits to the record arrays of DataSets, each computed once: what
\* TrainModels returns depends on the records and the random draws only
TrainKeys == {<<data, seed>> : data \in DataSets \ {EmptyArr}, seed \in Seeds}
FittedModels == Table([k \in TrainKeys |-> TrainModels(k[1], k[2])])
Fitted(data, seed) ==
    IF <<data, seed>> \in TrainKeys THEN FittedModels[<<data, seed>>]
    ELSE TrainModels(data, seed)

\* train keeping the bounds of an earlier train call
TrainKeepsBounds(self, data, seed) ==
    LET ex == extractFeatures(data)
        first == Length(self.featureMins) = 0
    IN  [models |-> Fitted(data, seed),
         featureMins |-> IF first THEN ex.mins ELSE self.featureMins,
         featureMaxs |-> IF first THEN ex.maxs ELSE self.featureMaxs]
\* the fields of the classifier after train(data) has returned
train(self, data, seed) ==
    LET ex == extractFeatures(data)
    IN  [models |-> Fitted(data, seed),
         featureMins |-> ex.mins,
         featureMaxs |-> ex.maxs]

\* the throw coming after this.models = []
TrainThrowsAfterReset(self, data) == [self EXCEPT !.models = EmptyArr]
\* the fields of the classifier after a train(data) that threw: the throw
\* comes from extractFeatures, before the first assignment
TrainThrows(self, data) == self

(***************************************************************************)
(* predict.                                                                *)
(***************************************************************************)
\* the probability one model gives the normalized input
Probability(model, normalizedFeatures) ==
    IF ~model.trained THEN Zero
    ELSE sigmoid(DotFrom(normalizedFeatures, model.weights, 0, model.bias))

\* lastIndexOf in place of indexOf
ArgMaxLast(probabilities) ==
    LET m == MathMax(probabilities)
    IN  IF \E i \in DOMAIN probabilities : FEq(probabilities[i], m)
        THEN CHOOSE i \in DOMAIN probabilities :
                /\ FEq(probabilities[i], m)
                /\ \A k \in DOMAIN probabilities : FEq(probabilities[k], m) => k <= i
        ELSE -1
\* probabilities.indexOf(Math.max(...probabilities))
ArgMax(probabilities) == IndexOf(probabilities, MathMax(probabilities))

predict(self, input) ==
    LET features == FeatureRow(input)
        normalizedFeatures ==
            Table([i \in DOMAIN features |->
                FDiv(FSub(features[i], Elem(self.featureMins, i)),
                     FSub(Elem(self.featureMaxs, i), Elem(self.featureMins, i)))])
        probabilities ==
            Table([c \in DOMAIN self.models |->
                Probability(self.models[c], normalizedFeatures)])
    IN  [prediction |-> ArgMax(probabilities),
         probabilities |-> probabilities,
         confidence |-> MathMax(probabilities)]

\* predict dropping the models once it has answered
PredictForgetsModels(self, input) == [self EXCEPT !.models = EmptyArr]
\* predict storing the bounds of its own input
PredictRefitsBounds(self, input) ==
    [self EXCEPT !.featureMins = FeatureRow(input), !.featureMaxs = FeatureRow(input)]
\* the fields of the classifier after predict: it assigns none of them
PredictLeaves(self, input) == self

(***************************************************************************)
(* getFeatureImportance.                                                   *)
(***************************************************************************)
\* models.reduce((sum, model) => sum + Math.abs(model.weights[i]), 0)
RECURSIVE AbsWeightSum(_, _, _, _)
AbsWeightSum(ms, i, c, acc) ==
    IF c >= Length(ms) THEN acc
    ELSE AbsWeightSum(ms, i, c + 1, FAdd(acc, FAbs(ms[c].weights[i])))

AvgWeight(ms, i) == FDiv(AbsWeightSum(ms, i, 0, Zero), Num(Length(ms)))

\* item.importance / maxImportance
Normalized(importance, maxImportance) == FDiv(importance, maxImportance)

\* the comparator reversed: (a, b) => a.importance - b.importance
RECURSIVE InsertPosAscending(_, _, _)
InsertPosAscending(sorted, item, pos) ==
    IF pos > 0 /\ FLt(item.importance, sorted[pos - 1].importance)
    THEN InsertPosAscending(sorted, item, pos - 1)
    ELSE pos
\* where a stable sort with comparator (a, b) => b.importance - a.importance
\* puts item among the already sorted entries: behind every entry it does not
\* strictly exceed (a NaN difference counts as a tie)
RECURSIVE InsertPos(_, _, _)
InsertPos(sorted, item, pos) ==
    IF pos > 0 /\ FLt(sorted[pos - 1].importance, item.importance)
    THEN InsertPos(sorted, item, pos - 1)
    ELSE pos
Insert(sorted, item) ==
    LET pos == InsertPos(sorted, item, Length(sorted))
    IN  Table([k \in 0..Length(sorted) |->
            IF k < pos THEN sorted[k]
            ELSE IF k = pos THEN item ELSE sorted[k - 1]])
RECURSIVE SortFrom(_, _, _)
SortFrom(a, i, sorted) ==
    IF i >= Length(a) THEN sorted ELSE SortFrom(a, i + 1, Insert(sorted, a[i]))
SortDescending(a) == SortFrom(a, 0, << >>)

getFeatureImportance(self) ==
    LET importance == Table([i \in DOMAIN featureNames |-> AvgWeight(self.models, i)])
        maxImportance == MathMax(importance)
    IN  SortDescending(
            Table([i \in DOMAIN featureNames |->
                [feature |-> featureNames[i],
                 importance |-> Normalized(importance[i], maxImportance)]]))

\* the fields of the classifier after getFeatureImportance
ImportanceLeaves(self) == self

(***************************************************************************)
(* evaluate.                                                               *)
(***************************************************************************)
Classes == 0..(numClasses - 1)

\* confusionMatrix[actual[i]][predictions[i]]++ for every sample; with a
\* prediction of -1 the increment lands on the property "-1" of the row,
\* which is none of its six entries
ConfusionMatrix(actual, predictions) ==
    Table([a \in Classes |-> Table([p \in Classes |->
        Cardinality({i \in DOMAIN predictions :
                        actual[i] = a /\ predictions[i] = p})])])

\* the matches divided by the number of classes
AccuracyPerClass(actual, predictions) ==
    FDiv(Num(Cardinality({i \in DOMAIN predictions : predictions[i] = actual[i]})),
         Num(numClasses))
\* predictions.filter((pred, i) => pred === actual[i]).length / predictions.length
Accuracy(actual, predictions) ==
    FDiv(Num(Cardinality({i \in DOMAIN predictions : predictions[i] = actual[i]})),
         Num(Length(predictions)))

RECURSIVE NatSum(_, _)
NatSum(f, S) ==
    IF S = {} THEN 0
    ELSE LET x == CHOOSE x \in S : TRUE IN f[x] + NatSum(f, S \ {x})

TruePos(matrix, c) == matrix[c][c]
\* the sum of column c with the diagonal entry included
FalsePosWholeColumn(matrix, c) == NatSum(Table([r \in Classes |-> matrix[r][c]]), Classes)
FalsePos(matrix, c) == NatSum(Table([r \in Classes |-> matrix[r][c]]), Classes \ {c})
FalseNeg(matrix, c) == NatSum(matrix[c], Classes \ {c})

\* tp / (tp + fp) || 0
Precision(matrix, c) ==
    OrZero(FDiv(Num(TruePos(matrix, c)),
                Num(TruePos(matrix, c) + FalsePos(matrix, c))))
\* tp / (tp + fn) || 0
Recall(matrix, c) ==
    OrZero(FDiv(Num(TruePos(matrix, c)),
                Num(TruePos(matrix, c) + FalseNeg(matrix, c))))
\* 2 * (precision * recall) / (precision + recall) || 0
F1(precision, recall) ==
    OrZero(FDiv(FMul(Num(2), FMul(precision, recall)), FAdd(precision, recall)))
ClassF1(matrix, c) == F1(Precision(matrix, c), Recall(matrix, c))

\* the point without Math.min(1, ...)
RocPointUnclamped(i, seed) ==
    LET fpr == FDiv(Num(i), Num(10))
    IN  [fpr |-> fpr,
         tpr |-> FAdd(FAdd(fpr, Fin(Scale \div 10)),
                      FMul(Random(seed, i), Fin(Scale \div 10)))]
\* { fpr: i / 10, tpr: Math.min(1, (i / 10) + 0.1 + Math.random() * 0.1) }
RocPoint(i, seed) ==
    LET fpr == FDiv(Num(i), Num(10))
    IN  [fpr |-> fpr,
         tpr |-> Min2(One, FAdd(FAdd(fpr, Fin(Scale \div 10)),
                                FMul(Random(seed, i), Fin(Scale \div 10))))]

evaluate(self, testData, seed) ==
    LET predictions == Table([i \in DOMAIN testData |->
                           predict(self, InputOf(testData[i])).prediction])
        actual == Table([i \in DOMAIN testData |-> testData[i].smogLevel.value])
        confusionMatrix == ConfusionMatrix(actual, predictions)
        totalPrecision ==
            SumFrom(Table([c \in Classes |-> Precision(confusionMatrix, c)]), 0, Zero)
        totalRecall ==
            SumFrom(Table([c \in Classes |-> Recall(confusionMatrix, c)]), 0, Zero)
        totalF1 ==
            SumFrom(Table([c \in Classes |-> ClassF1(confusionMatrix, c)]), 0, Zero)
    IN  [accuracy |-> Accuracy(actual, predictions),
         precision |-> FDiv(totalPrecision, Num(numClasses)),
         recall |-> FDiv(totalRecall, Num(numClasses)),
         f1Score |-> FDiv(totalF1, Num(numClasses)),
         confusionMatrix |-> confusionMatrix,
         rocCurve |-> Table([i \in 0..(RocPoints - 1) |-> RocPoint(i, seed)])]

\* the fields of the classifier after evaluate
EvaluateLeaves(self, testData) == self

(***************************************************************************)
(* The data generator of src/src/utils/dataGenerator.ts.  Its numbers are  *)
(* integers in hundredths (1250 is 12.5); a value of Math.random() is one  *)
(* of the hundredths 0..99.                                                *)
(***************************************************************************)
Hundred == 100
\* a * b and a / b on hundredths
GMul(a, b) == RDiv(a * b, Hundred)
\* Math.round(x * 10) / 10: to the nearest tenth, a half going up
RoundTenth(x) == ((x + 5) \div 10) * 10
IMax(a, b) == IF a < b THEN b ELSE a

cities ==
    <<[name |-> "Beijing", basePM25 |-> 85, baseTemp |-> 12],
      [name |-> "Delhi", basePM25 |-> 95, baseTemp |-> 25],
      [name |-> "Los Angeles", basePM25 |-> 35, baseTemp |-> 20],
      [name |-> "Mexico City", basePM25 |-> 65, baseTemp |-> 18],
      [name |-> "Bangkok", basePM25 |-> 55, baseTemp |-> 28],
      [name |-> "Lahore", basePM25 |-> 105, baseTemp |-> 22]>>

\* Math.sin((month - 6) * Math.PI / 6) for month = 0..11
SinTable == <<0, -50, -87, -100, -87, -50, 0, 50, 87, 100, 87, 50>>

\* the rows of the breakpoint table, concentrations in hundredths
breakpoints ==
    <<[low |-> 0, high |-> 1200, aqiLow |-> 0, aqiHigh |-> 50],
      [low |-> 1210, high |-> 3540, aqiLow |-> 51, aqiHigh |-> 100],
      [low |-> 3550, high |-> 5540, aqiLow |-> 101, aqiHigh |-> 150],
      [low |-> 5550, high |-> 15040, aqiLow |-> 151, aqiHigh |-> 200],
      [low |-> 15050, high |-> 25040, aqiLow |-> 201, aqiHigh |-> 300],
      [low |-> 25050, high |-> 50000, aqiLow |-> 301, aqiHigh |-> 500]>>

\* the AQI of the first row that holds pm25, rounded to an integer; 500
\* when no row holds it
calculateAQI(pm25) ==
    LET holding == {b \in DOMAIN breakpoints :
                       pm25 >= breakpoints[b].low /\ pm25 <= breakpoints[b].high}
    IN  IF holding = {} THEN 500
        ELSE LET bp == breakpoints[CHOOSE b \in holding :
                                      \A o \in holding : b <= o]
             IN  RDiv((bp.aqiHigh - bp.aqiLow) * (pm25 - bp.low),
                      bp.high - bp.low) + bp.aqiLow

\* the branch for 'Unhealthy for Sensitive Groups' left out
GetSmogLevelSkipsSensitive(aqi) ==
    IF aqi <= 50 THEN [level |-> "Good", value |-> 0]
    ELSE IF aqi <= 100 THEN [level |-> "Moderate", value |-> 1]
    ELSE IF aqi <= 200 THEN [level |-> "Unhealthy", value |-> 3]
    ELSE IF aqi <= 300 THEN [level |-> "Very Unhealthy", value |-> 4]
    ELSE [level |-> "Hazardous", value |-> 5]
getSmogLevel(aqi) ==
    IF aqi <= 50 THEN [level |-> "Good", value |-> 0]
    ELSE IF aqi <= 100 THEN [level |-> "Moderate", value |-> 1]
    ELSE IF aqi <= 150
         THEN [level |-> "Unhealthy for Sensitive Groups", value |-> 2]
    ELSE IF aqi <= 200 THEN [level |-> "Unhealthy", value |-> 3]
    ELSE IF aqi <= 300 THEN [level |-> "Very Unhealthy", value |-> 4]
    ELSE [level |-> "Hazardous", value |-> 5]

\* what one pass of the loop draws: the city, the month and hour of the
\* date, and the values of Math.random() for temperature, humidity, wind
\* speed, pressure, the PM2.5 variation, PM10 and visibility
Months == {0, 7}
Hours == {3, 8, 12}
Coarse == {0, 99}
Fine == {0, 50, 99}
Draws ==
    [city : DOMAIN cities, month : Months, hour : Hours, temperature : Coarse,
     humidity : Coarse, windSpeed : Fine, pressure : Coarse, variation : Fine,
     pm10 : Coarse, visibility : Fine]

winterMultiplier(month) == IF month >= 10 \/ month <= 2 THEN 140 ELSE 80
rushHourMultiplier(hour) ==
    IF (hour >= 7 /\ hour <= 9) \/ (hour >= 17 /\ hour <= 19) THEN 130
    ELSE IF hour >= 22 \/ hour <= 6 THEN 70 ELSE 100

\* PM2.5 before it is rounded for the record
RawPM25(d, humidity, windSpeed, pressure) ==
    LET city == cities[d.city]
        base == GMul(GMul(city.basePM25 * Hundred, winterMultiplier(d.month)),
                     rushHourMultiplier(d.hour))
        wind == GMul(base, Hundred - RDiv(windSpeed, 25))
        humid == GMul(wind, Hundred + RDiv(humidity - 50 * Hundred, 200))
        press == GMul(humid, Hundred + RDiv(1040 * Hundred - pressure, 1000))
    IN  IMax(5 * Hundred, press + (d.variation - 50) * 30)

\* Math.max(0.5, 25 - pm25 / 5 + (Math.random() - 0.5) * 5)
Visibility(pm25, r) ==
    IMax(50, 25 * Hundred - RDiv(pm25, 5) + (r - 50) * 5)

\* the record one pass of the loop pushes
GenerateRecord(i, d) ==
    LET city == cities[d.city]
        temperature == city.baseTemp * Hundred + (d.temperature - 50) * 20
                           + 10 * SinTable[d.month + 1]
        humidity == 30 * Hundred + d.humidity * 60
        windSpeed == d.windSpeed * 15 + 2 * Hundred
        pressure == 980 * Hundred + d.pressure * 60
        pm25 == RawPM25(d, humidity, windSpeed, pressure)
        pm10 == GMul(pm25, 150 + RDiv(d.pm10, 2))
        visibility == Visibility(pm25, d.visibility)
        aqi == calculateAQI(pm25)
    IN  [id |-> i, city |-> city.name,
         pm25 |-> RoundTenth(pm25), pm10 |-> RoundTenth(pm10),
         temperature |-> RoundTenth(temperature),
         humidity |-> RoundTenth(humidity),
         windSpeed |-> RoundTenth(windSpeed),
         visibility |-> RoundTenth(visibility),
         pressure |-> RoundTenth(pressure),
         smogLevel |-> getSmogLevel(aqi), aqi |-> aqi]

(***************************************************************************)
(* The Dashboard component and its children PredictionForm and             *)
(* FeatureImportance: their React state and what their handlers compute.   *)
(* The generated array has MaxData records (the code asks for 2000); the   *)
(* readings a slider can be set to are scaled to the model's records.      *)
(***************************************************************************)
Null == [null |-> TRUE]
Tabs == {"predict", "data", "metrics", "features"}
Fields ==
    {"pm25", "temperature", "humidity", "windSpeed", "visibility", "pressure"}
\* the values a slider is moved between
SliderValues == {0, 2}
\* the input PredictionForm starts with
DefaultInput == Uniform(2)
\* what generateRealisticAirQualityData returns to the effect
GeneratedArrays == {Slice(from, MaxData) : from \in 0..(MaxData - 1)}

\* a.slice(from, to)
ArraySlice(a, from, to) == Table([i \in 0..(to - from - 1) |-> a[from + i]])
\* a split that leaves the training slice empty
TrainSizeZero(trainingData) == 0
\* Math.floor(trainingData.length * 0.8)
TrainSize(trainingData) == (Length(trainingData) * 8) \div 10
\* trainingData.slice(0, trainSize)
TrainSlice(trainingData) == ArraySlice(trainingData, 0, TrainSize(trainingData))
\* the test records taken from the start of the array again
TestSliceFromStart(trainingData) ==
    ArraySlice(trainingData, 0, Length(trainingData) - TrainSize(trainingData))
\* trainingData.slice(trainSize)
TestSlice(trainingData) ==
    ArraySlice(trainingData, TrainSize(trainingData), Length(trainingData))

\* the state of the three components before the effect has run
NewDashboard ==
    [effectRan |-> FALSE, data |-> EmptyArr, metrics |-> Null,
     isTraining |-> FALSE, activeTab |-> "predict", modelTrained |-> FALSE,
     timer |-> Null, input |-> DefaultInput, prediction |-> Null,
     featureImportance |-> Null]

\* FeatureImportance is rendered on the features tab once modelTrained is
\* set, and computes its ranking when it is mounted
\* FeatureImportance rendered whenever its tab is the active one
ShowsFeaturesAlways(d) == d.activeTab = "features"
ShowsFeatures(d) == d.activeTab = "features" /\ d.modelTrained
Render(before, after, classifier) ==
    IF ~ShowsFeatures(after) THEN [after EXCEPT !.featureImportance = Null]
    ELSE IF ShowsFeatures(before) THEN after
    ELSE [after EXCEPT !.featureImportance = getFeatureImportance(classifier)]

(***************************************************************************)
(* The state: the singleton smogPredictor, the last call made on it with   *)
(* what it returned, and the state of the Dashboard component, which the   *)
(* calls made directly on the classifier leave alone.                      *)
(***************************************************************************)
VARIABLES smogPredictor, out, dashboard
vars == <<smogPredictor, out, dashboard>>

Init ==
    /\ smogPredictor = NewClassifier
    /\ out = [op |-> "new"]
    /\ dashboard = NewDashboard

\* smogPredictor.train(data); on an empty array extractFeatures throws
\* before any field is assigned
Train ==
    \E data \in DataSets, seed \in Seeds :
        IF extractFeatures(data).threw
        THEN /\ out' = [op |-> "train", data |-> data, threw |-> TRUE]
             /\ smogPredictor' = TrainThrows(smogPredictor, data)
             /\ UNCHANGED dashboard
        ELSE /\ smogPredictor' = train(smogPredictor, data, seed)
             /\ out' = [op |-> "train", data |-> data, threw |-> FALSE]
             /\ UNCHANGED dashboard

\* smogPredictor.predict(input)
Predict ==
    \E input \in PredictionInputs :
        /\ out' = [op |-> "predict", input |-> input,
                   result |-> predict(smogPredictor, input)]
        /\ smogPredictor' = PredictLeaves(smogPredictor, input)
        /\ UNCHANGED dashboard

\* smogPredictor.getFeatureImportance()
GetFeatureImportance ==
    /\ out' = [op |-> "getFeatureImportance",
               result |-> getFeatureImportance(smogPredictor)]
    /\ smogPredictor' = ImportanceLeaves(smogPredictor)
    /\ UNCHANGED dashboard

\* smogPredictor.evaluate(testData)
Evaluate ==
    \E testData \in DataSets, seed \in Seeds :
        /\ out' = [op |-> "evaluate", testData |-> testData,
                   result |-> evaluate(smogPredictor, testData, seed)]
        /\ smogPredictor' = EvaluateLeaves(smogPredictor, testData)
        /\ UNCHANGED dashboard

Next == Train \/ Predict \/ GetFeatureImportance \/ Evaluate

Spec == Init /\ [][Next]_vars

(***************************************************************************)
(* The application: the Dashboard mounts, its effect generates the data    *)
(* and starts trainModel, which waits for its timer; meanwhile and         *)
(* afterwards the user switches tabs and moves the sliders.  What predict   *)
(* and getFeatureImportance return goes to the state of the component      *)
(* that called; out keeps the calls trainModel made.                       *)
(***************************************************************************)
\* useEffect: setData(generatedData); trainModel(generatedData) up to its
\* await
MountEffect ==
    /\ ~dashboard.effectRan
    /\ \E generatedData \in GeneratedArrays :
        dashboard' = [dashboard EXCEPT !.effectRan = TRUE,
                                       !.data = generatedData,
                                       !.isTraining = TRUE,
                                       !.timer = [trainingData |-> generatedData]]
    /\ UNCHANGED <<smogPredictor, out>>

\* trainModel from the timer on: split, train, evaluate, set the state.  A
\* train that throws rejects the promise and nothing after it runs
TrainModelResumes ==
    /\ dashboard.timer # Null
    /\ \E seed \in Seeds :
        LET trainingData == dashboard.timer.trainingData
            trainData == TrainSlice(trainingData)
            testData == TestSlice(trainingData)
            threw == extractFeatures(trainData).threw
            call == [op |-> "trainModel", trainingData |-> trainingData,
                     trainData |-> trainData, testData |-> testData,
                     threw |-> threw]
        IN  IF threw
            THEN /\ dashboard' = [dashboard EXCEPT !.timer = Null]
                 /\ out' = call
                 /\ UNCHANGED smogPredictor
            ELSE LET trained == train(smogPredictor, trainData, seed)
                     modelMetrics == evaluate(trained, testData, seed)
                 IN  /\ smogPredictor' = trained
                     /\ out' = call
                     /\ dashboard' =
                            Render(dashboard,
                                   [dashboard EXCEPT !.timer = Null,
                                                     !.metrics = modelMetrics,
                                                     !.modelTrained = TRUE,
                                                     !.isTraining = FALSE],
                                   trained)

\* onClick of a tab button: setActiveTab(tab.id).  PredictionForm keeps its
\* state only while the predict tab shows it
SetActiveTab ==
    \E tab \in Tabs :
        /\ dashboard.effectRan
        /\ tab # dashboard.activeTab
        /\ LET after == [dashboard EXCEPT !.activeTab = tab,
                                          !.input = DefaultInput,
                                          !.prediction = Null]
           IN  dashboard' = Render(dashboard, after, smogPredictor)
        /\ UNCHANGED <<smogPredictor, out>>

\* PredictionForm.handleInputChange(field, value)
HandleInputChange ==
    \E field \in Fields, value \in SliderValues :
        /\ dashboard.effectRan
        /\ dashboard.activeTab = "predict"
        /\ LET newInput == [dashboard.input EXCEPT ![field] = value]
           IN  IF dashboard.modelTrained
               THEN dashboard' =
                        [dashboard EXCEPT !.input = newInput,
                                          !.prediction =
                                              predict(smogPredictor, newInput)]
               ELSE dashboard' = [dashboard EXCEPT !.input = newInput]
        /\ UNCHANGED <<smogPredictor, out>>

DashboardNext ==
    MountEffect \/ TrainModelResumes \/ SetActiveTab \/ HandleInputChange

DashboardSpec == Init /\ [][DashboardNext]_vars

\* the effect of the mounted component runs, and the timer that trainModel
\* awaits fires.  TrainModelResumes is enabled exactly while the timer is
\* pending and every step of it ends that, so its weak fairness is the
\* timer being not pending again and again
TimerFires == []<>(dashboard.timer = Null)
FairDashboardSpec == DashboardSpec /\ WF_vars(MountEffect) /\ TimerFires

(***************************************************************************)
(* The generator called for one sample: one pass of its loop, with the     *)
(* sort of a one-record array leaving it as it is.                         *)
(***************************************************************************)
\* generateRealisticAirQualityData(1)
GenerateData ==
    /\ out.op = "new"
    /\ \E d \in Draws :
        out' = [op |-> "generateRealisticAirQualityData", draws |-> d,
                result |-> <<GenerateRecord(0, d)>>]
    /\ UNCHANGED <<smogPredictor, dashboard>>

GeneratorNext == GenerateData

GeneratorSpec == Init /\ [][GeneratorNext]_vars

(***************************************************************************)
(* One pass of the epoch loop of trainBinaryClassifier on its own: the     *)
(* normalized matrix and labels of a record array, a target class, and     *)
(* weights and bias as an earlier pass may have left them.                 *)
(***************************************************************************)
\* weights and bias at the start of a pass: after many passes they are far
\* from the small initial draws
StartWeights == {-2, 3}
StartBiases == {0, 2}
StartModels ==
    {[weights |-> Table([j \in 0..(NumFeatures - 1) |->
                      Fin(((j - 2) * s * Scale) \div 2)]),
      bias |-> Num(b)] : s \in StartWeights, b \in StartBiases}

\* the body of the loop at lines 49-84 run once
RunEpoch ==
    /\ out.op = "new"
    /\ \E data \in DataSets \ {EmptyArr}, targetClass \in Classes,
          m \in StartModels :
        LET ex == extractFeatures(data)
            features == normalizeFeatures(ex.features, ex.mins, ex.maxs)
            binaryLabels == Table([i \in DOMAIN ex.labels |->
                                IF ex.labels[i] = targetClass THEN 1 ELSE 0])
        IN  out' = [op |-> "epoch", data |-> data,
                    targetClass |-> targetClass, features |-> features,
                    binaryLabels |-> binaryLabels, before |-> m,
                    after |-> Epoch(features, binaryLabels, m)]
    /\ UNCHANGED <<smogPredictor, dashboard>>

EpochNext == RunEpoch

EpochSpec == Init /\ [][EpochNext]_vars

(***************************************************************************)
(* train step by step: one step per pass of the epoch loop, one per model  *)
(* pushed.  out holds the locals of train and of the running               *)
(* trainBinaryClassifier call, and the passes made so far.                 *)
(***************************************************************************)
epochs == 1000

\* the loop test taken once more
LoopRunsInclusive(epoch) == epoch <= epochs
\* the test of the epoch loop, epoch < epochs: nothing but the counter
\* enters it (the loss is summed and never read, the decay branch is empty)
LoopRuns(epoch) == epoch < epochs

\* weights and bias as trainBinaryClassifier initialises them
InitialModel(seed, targetClass) ==
    [weights |-> Table([j \in 0..(NumFeatures - 1) |->
                     InitialWeight(seed, targetClass, j)]),
     bias |-> Zero]

\* train(data) up to the first call of trainBinaryClassifier
BeginTrain ==
    /\ out.op = "new"
    /\ \E data \in DataSets \ {EmptyArr}, seed \in Seeds :
        LET ex == extractFeatures(data)
            normalizedFeatures ==
                normalizeFeatures(ex.features, ex.mins, ex.maxs)
        IN  /\ smogPredictor' = [models |-> EmptyArr, featureMins |-> ex.mins,
                                 featureMaxs |-> ex.maxs]
            /\ out' = [op |-> "training", data |-> data, seed |-> seed,
                       features |-> normalizedFeatures, labels |-> ex.labels,
                       classLabel |-> 0, epoch |-> 0,
                       m |-> InitialModel(seed, 0), passes |-> 0]
    /\ UNCHANGED dashboard

\* one pass of the epoch loop of the running trainBinaryClassifier call
EpochStep ==
    /\ out.op = "training"
    /\ LoopRuns(out.epoch)
    /\ LET binaryLabels == Table([i \in DOMAIN out.labels |->
                               IF out.labels[i] = out.classLabel
                               THEN 1 ELSE 0])
       IN  out' = [out EXCEPT !.m = Epoch(out.features, binaryLabels, out.m),
                              !.epoch = out.epoch + 1,
                              !.passes = out.passes + 1]
    /\ UNCHANGED <<smogPredictor, dashboard>>

\* the loop left: trainBinaryClassifier returns, train pushes the model and
\* goes on to the next class or returns
FinishClass ==
    /\ out.op = "training"
    /\ ~LoopRuns(out.epoch)
    /\ LET model == [weights |-> out.m.weights, bias |-> out.m.bias,
                     trained |-> TRUE]
           next == out.classLabel + 1
       IN  /\ smogPredictor' =
                  [smogPredictor EXCEPT
                      !.models = Table([c \in 0..Length(smogPredictor.models) |->
                                     IF c < Length(smogPredictor.models)
                                     THEN smogPredictor.models[c] ELSE model])]
           /\ IF next < numClasses
              THEN out' = [out EXCEPT !.classLabel = next, !.epoch = 0,
                                      !.m = InitialModel(out.seed, next)]
              ELSE out' = [op |-> "trained", data |-> out.data,
                           seed |-> out.seed, passes |-> out.passes]
    /\ UNCHANGED dashboard

TrainingNext == BeginTrain \/ EpochStep \/ FinishClass

TrainingSpec == Init /\ [][TrainingNext]_vars

\* train is synchronous code: once called it keeps running.  The weak
\* fairness of EpochStep is written with its enabling condition in the place
\* of ENABLED <<EpochStep>>_vars: a pass is possible exactly while the
\* loop test holds in a running call
TrainKeepsRunning ==
    \/ []<>(~(out.op = "training" /\ LoopRuns(out.epoch)))
    \/ []<><<EpochStep>>_vars
FairTrainingSpec == TrainingSpec /\ WF_vars(FinishClass) /\ TrainKeepsRunning

(***************************************************************************)
(* The six trainBinaryClassifier calls of one train call run interleaved,  *)
(* a pass of one epoch loop at a time in any order, each call with its own *)
(* locals (weights, bias, epoch) and all of them on the one normalized     *)
(* matrix and label array train passes them.  The order train runs them    *)
(* in, class after class, is one of these runs.                            *)
(***************************************************************************)
\* labels.map(label => label === targetClass ? 1 : 0)
BinaryLabels(labels, targetClass) ==
    Table([i \in DOMAIN labels |-> IF labels[i] = targetClass THEN 1 ELSE 0])

\* a pass that takes the bias the call for the class before has reached
UnitPassSharedBias(units, c, features, labels) ==
    [units EXCEPT ![c] =
        [epoch |-> @.epoch + 1,
         m |-> Epoch(features, BinaryLabels(labels, c),
                     [weights |-> @.m.weights,
                      bias |-> units[(c + numClasses - 1) % numClasses].m.bias])]]
\* one pass of the epoch loop of the call for class c: it reads features,
\* labels, c and its own weights and bias, and assigns its own locals only
UnitPass(units, c, features, labels) ==
    [units EXCEPT ![c] =
        [epoch |-> @.epoch + 1,
         m |-> Epoch(features, BinaryLabels(labels, c), @.m)]]

\* the record arrays of the largest size
FullArrays == {Slice(from, MaxRecords) : from \in 0..(MaxData - 1)}

\* train(data) up to the loop over the classes, and the six calls entered
BeginInterleaved ==
    /\ out.op = "new"
    /\ \E data \in FullArrays, seed \in Seeds :
        LET ex == extractFeatures(data)
            normalizedFeatures ==
                normalizeFeatures(ex.features, ex.mins, ex.maxs)
        IN  /\ smogPredictor' = [models |-> EmptyArr, featureMins |-> ex.mins,
                                 featureMaxs |-> ex.maxs]
            /\ out' = [op |-> "interleaved", data |-> data, seed |-> seed,
                       features |-> normalizedFeatures, labels |-> ex.labels,
                       units |-> Table([c \in Classes |->
                                    [epoch |-> 0, m |-> InitialModel(seed, c)]])]
    /\ UNCHANGED dashboard

UnitEpoch ==
    /\ out.op = "interleaved"
    /\ \E c \in Classes :
        /\ out.units[c].epoch < MaxEpochs
        /\ out' = [out EXCEPT
                      !.units = UnitPass(out.units, c, out.features, out.labels)]
    /\ UNCHANGED <<smogPredictor, dashboard>>

\* every call has returned: the models pushed in the order of the classes
CollectModels ==
    /\ out.op = "interleaved"
    /\ \A c \in Classes : out.units[c].epoch >= MaxEpochs
    /\ smogPredictor' =
           [smogPredictor EXCEPT
               !.models = Table([c \in Classes |->
                              [weights |-> out.units[c].m.weights,
                               bias |-> out.units[c].m.bias,
                               trained |-> TRUE]])]
    /\ out' = [op |-> "interleavedDone", data |-> out.data, seed |-> out.seed]
    /\ UNCHANGED dashboard

InterleavedNext == BeginInterleaved \/ UnitEpoch \/ CollectModels

InterleavedSpec == Init /\ [][InterleavedNext]_vars

(***************************************************************************)
(* Properties.                                                             *)
(***************************************************************************)
\* train has completed at least once: train is the only writer of models
\* and leaves numClasses of them
Trained == Length(smogPredictor.models) = numClasses
Diagonal(matrix) == NatSum([c \in Classes |-> matrix[c][c]], Classes)
Total(matrix) ==
    NatSum([c \in Classes |-> NatSum(matrix[c], Classes)], Classes)
\* the indices whose probability no other exceeds and every other is
\* comparable to
Maximal(probabilities) ==
    {i \in DOMAIN probabilities :
        \A k \in DOMAIN probabilities : FLe(probabilities[k], probabilities[i])}

\* C1: predict on a freshly constructed classifier (train never called)
\* returns prediction index 0 and confidence 0 for every input.
C1_UntrainedPredictsZero ==
    (out.op = "predict" /\ smogPredictor = NewClassifier)
        => /\ out.result.prediction = 0
           /\ out.result.confidence = Zero

\* C2: after train has completed on a non-empty record sequence, predict
\* returns a class index in 0..5 for every input.
C2_PredictionIsClassIndex ==
    (out.op = "predict" /\ Trained) => out.result.prediction \in Classes

\* C3: when several classes share the maximum probability, predict returns
\* the lowest class index among them.
C3_TieGoesToLowestIndex ==
    out.op = "predict" =>
        LET tied == Maximal(out.result.probabilities)
        IN  Cardinality(tied) >= 2 =>
                /\ out.result.prediction \in tied
                /\ \A i \in tied : out.result.prediction <= i
C3_Witness ==
    /\ out.op = "predict"
    /\ Trained
    /\ Cardinality(Maximal(out.result.probabilities)) >= 2
    /\ \E i \in Classes : i \notin Maximal(out.result.probabilities)

\* C4: for every predict call after train the probability vector has exactly
\* 6 entries, and the confidence equals the maximum entry, which is the entry
\* at the returned prediction index.
C4_ConfidenceIsMaxEntry ==
    (out.op = "predict" /\ Trained) =>
        LET r == out.result
        IN  /\ DOMAIN r.probabilities = Classes
            /\ r.prediction \in DOMAIN r.probabilities
            /\ FEq(r.confidence, r.probabilities[r.prediction])
            /\ \A c \in Classes : FLe(r.probabilities[c], r.confidence)

\* C5: for every evaluate call the entries of the 6x6 confusion matrix sum
\* to the number of test records.
C5_MatrixCountsEveryRecord ==
    out.op = "evaluate" =>
        Total(out.result.confusionMatrix) = Length(out.testData)

\* C6 as stated: for every evaluate call, on a test sequence of any length,
\* the reported accuracy equals the diagonal sum divided by the number of
\* test records.
C6_AccuracyIsDiagonalShare ==
    out.op = "evaluate" =>
        FEq(out.result.accuracy,
            FDiv(Num(Diagonal(out.result.confusionMatrix)),
                 Num(Length(out.testData))))
\* C6 amended: on a non-empty test sequence the accuracy equals the diagonal
\* sum divided by the number of test records; on the empty one it is NaN.
C6_AccuracyIsDiagonalShareNonEmpty ==
    out.op = "evaluate" =>
        IF Length(out.testData) = 0 THEN IsNaN(out.result.accuracy)
        ELSE FEq(out.result.accuracy,
                 FDiv(Num(Diagonal(out.result.confusionMatrix)),
                      Num(Length(out.testData))))
C6_Witness ==
    /\ out.op = "evaluate"
    /\ Length(out.testData) = MaxRecords
    /\ Diagonal(out.result.confusionMatrix) = 1

\* C7: in evaluate a class with tp + fp = 0 has precision 0, a class with
\* tp + fn = 0 has recall 0, a class with precision + recall = 0 has F1 0,
\* and no per-class or averaged precision, recall or F1 is NaN.
C7_DegenerateClassMetricsAreZero ==
    out.op = "evaluate" =>
        LET m == out.result.confusionMatrix
        IN  /\ \A c \in Classes :
                /\ TruePos(m, c) + FalsePos(m, c) = 0 => Precision(m, c) = Zero
                /\ TruePos(m, c) + FalseNeg(m, c) = 0 => Recall(m, c) = Zero
                /\ FAdd(Precision(m, c), Recall(m, c)) = Zero => ClassF1(m, c) = Zero
                /\ IsFin(Precision(m, c)) /\ IsFin(Recall(m, c)) /\ IsFin(ClassF1(m, c))
            /\ IsFin(out.result.precision)
            /\ IsFin(out.result.recall)
            /\ IsFin(out.result.f1Score)
C7_Witness ==
    /\ out.op = "evaluate"
    /\ LET m == out.result.confusionMatrix
       IN  /\ \E c \in Classes : TruePos(m, c) + FalsePos(m, c) = 0
           /\ \E c \in Classes : TruePos(m, c) + FalseNeg(m, c) = 0
           /\ \E c \in Classes : TruePos(m, c) > 0
           /\ \E c \in Classes : FalsePos(m, c) > 0

\* C8: for any classifier on which train has completed, the scores of
\* getFeatureImportance have maximum exactly 1 and all lie in [0,1].
C8_TopImportanceIsOne ==
    (out.op = "getFeatureImportance" /\ Trained) =>
        /\ \E k \in DOMAIN out.result : FEq(out.result[k].importance, One)
        /\ \A k \in DOMAIN out.result :
            /\ FLe(Zero, out.result[k].importance)
            /\ FLe(out.result[k].importance, One)

\* C9: getFeatureImportance returns exactly six entries, one per feature
\* name with none repeated or missing, no entry followed by a larger one;
\* each score is the mean absolute weight of its feature over the models
\* divided by the largest such mean (the number that division yields, which
\* is NaN for every feature when the models are missing or hold NaN).
C9_ImportanceRanking ==
    out.op = "getFeatureImportance" =>
        LET r == out.result
            mean == [i \in DOMAIN featureNames |-> AvgWeight(smogPredictor.models, i)]
        IN  /\ DOMAIN r = 0..(NumFeatures - 1)
            /\ \A i \in DOMAIN featureNames :
                \E k \in DOMAIN r :
                    /\ r[k].feature = featureNames[i]
                    /\ r[k].importance = FDiv(mean[i], MathMax(mean))
                    /\ \A j \in DOMAIN r : r[j].feature = featureNames[i] => j = k
            /\ \A j, k \in DOMAIN r :
                j < k => ~FLt(r[j].importance, r[k].importance)
C9_Witness ==
    /\ out.op = "getFeatureImportance"
    /\ Trained
    /\ \A k \in DOMAIN out.result : IsFin(out.result[k].importance)
    /\ \E j, k \in DOMAIN out.result :
        FLt(out.result[k].importance, out.result[j].importance)
    /\ out.result[0].feature # featureNames[0]

\* C10: predict, evaluate and getFeatureImportance are read-only: across
\* each of them the stored bounds and every model's weights, bias and trained
\* flag stay as they were, so they remain what the last completed train left.
C10_ReadsLeaveClassifier ==
    [][out'.op \in {"predict", "evaluate", "getFeatureImportance"}
         => smogPredictor' = smogPredictor]_vars
C10_Witness ==
    /\ out.op \in {"predict", "evaluate"}
    /\ Trained
    /\ \A i \in DOMAIN smogPredictor.featureMins :
        FLt(smogPredictor.featureMins[i], smogPredictor.featureMaxs[i])

\* every weight and the bias of every model is a finite number
FiniteModels(models) ==
    \A c \in DOMAIN models :
        /\ IsFin(models[c].bias)
        /\ \A j \in DOMAIN models[c].weights : IsFin(models[c].weights[j])
\* the value of feature i in record d
Reading(d, i) == FeatureRow(d)[i]
\* the features on which all records of data agree
ConstantFeatures(data) ==
    {i \in 0..(NumFeatures - 1) :
        \A r, q \in DOMAIN data : Reading(data[r], i) = Reading(data[q], i)}

\* C11: after a completed train call the classifier holds exactly six
\* models, all with trained = true, all fitted to the records of that call,
\* and bounds that are the smallest and largest value of each feature over
\* those records; nothing of an earlier train call remains.
C11_TrainReplacesEverything ==
    (out.op = "train" /\ ~out.threw) =>
        LET data == out.data
            mins == smogPredictor.featureMins
            maxs == smogPredictor.featureMaxs
            rows == [r \in DOMAIN data |-> FeatureRow(data[r])]
            labels == [r \in DOMAIN data |-> data[r].smogLevel.value]
        IN  /\ DOMAIN smogPredictor.models = Classes
            /\ \A c \in Classes : smogPredictor.models[c].trained
            /\ DOMAIN mins = 0..(NumFeatures - 1)
            /\ DOMAIN maxs = 0..(NumFeatures - 1)
            /\ \A i \in 0..(NumFeatures - 1) :
                /\ \A r \in DOMAIN data :
                    FLe(mins[i], rows[r][i]) /\ FLe(rows[r][i], maxs[i])
                /\ \E r \in DOMAIN data : mins[i] = rows[r][i]
                /\ \E r \in DOMAIN data : maxs[i] = rows[r][i]
            /\ \E seed \in Seeds : \A c \in Classes :
                smogPredictor.models[c] =
                    trainBinaryClassifier(normalizeFeatures(rows, mins, maxs),
                                          labels, c, seed)
C11_Witness ==
    /\ out.op = "train"
    /\ ~out.threw
    /\ Length(out.data) = MaxRecords
    /\ FiniteModels(smogPredictor.models)
    /\ \E i \in DOMAIN smogPredictor.featureMins :
        smogPredictor.featureMins[i] # Zero

\* C12: train called with zero records does not throw; the classifier ends
\* up holding NaN.
C12_EmptyTrainDoesNotThrow ==
    (out.op = "train" /\ Length(out.data) = 0) => ~out.threw

\* C13: when exactly one feature has min equal to max over the training
\* records, train completes and every model's bias and its weights of the
\* other five features are finite numbers.
C13_ConstantFeatureDamageConfined ==
    (out.op = "train" /\ Cardinality(ConstantFeatures(out.data)) = 1) =>
        /\ ~out.threw
        /\ \A c \in DOMAIN smogPredictor.models :
            /\ IsFin(smogPredictor.models[c].bias)
            /\ \A j \in DOMAIN smogPredictor.models[c].weights :
                j \notin ConstantFeatures(out.data)
                    => IsFin(smogPredictor.models[c].weights[j])

\* v_norm * (M - m) + m, the inverse the normalization is measured against
Denormalize(vn, m, M) == FAdd(FMul(vn, FSub(M, m)), m)
\* the features of the last predict input that lie within stored bounds m < M
WithinBounds ==
    {i \in DOMAIN smogPredictor.featureMins :
        /\ FLt(smogPredictor.featureMins[i], smogPredictor.featureMaxs[i])
        /\ FLe(smogPredictor.featureMins[i], Reading(out.input, i))
        /\ FLe(Reading(out.input, i), smogPredictor.featureMaxs[i])}
\* the normalized features of the last predict input
NormalizedInput ==
    NormalizeRow(FeatureRow(out.input), smogPredictor.featureMins,
                 smogPredictor.featureMaxs)

\* C14 as stated: for a feature with bounds m < M and a value v in [m, M],
\* normalizing and then denormalizing recovers v, and the normalized value
\* lies in [0,1].
C14_RoundTripExact ==
    out.op = "predict" =>
        \A i \in WithinBounds :
            /\ FLe(Zero, NormalizedInput[i]) /\ FLe(NormalizedInput[i], One)
            /\ Denormalize(NormalizedInput[i], smogPredictor.featureMins[i],
                           smogPredictor.featureMaxs[i]) = Reading(out.input, i)
\* C14 amended: the normalized value lies in [0,1] and the round trip
\* recovers v to within the rounding of the division: the difference is at
\* most one unit of the last place for every unit of M - m.
C14_RoundTripWithinTolerance ==
    out.op = "predict" =>
        \A i \in WithinBounds :
            LET m == smogPredictor.featureMins[i]
                M == smogPredictor.featureMaxs[i]
                back == Denormalize(NormalizedInput[i], m, M)
            IN  /\ FLe(Zero, NormalizedInput[i]) /\ FLe(NormalizedInput[i], One)
                /\ FLe(FAbs(FSub(back, Reading(out.input, i))),
                       FMul(FSub(M, m), Fin(1)))
C14_Witness ==
    /\ out.op = "predict"
    /\ \E i \in WithinBounds :
        /\ FLt(Zero, NormalizedInput[i]) /\ FLt(NormalizedInput[i], One)
        /\ smogPredictor.featureMins[i] # Zero

\* a / b, or 0 where the denominator is 0
Ratio(a, b) == IF b = Zero THEN Zero ELSE FDiv(a, b)
\* the mean over the six classes of the values v[c]
MacroAverage(v) == FDiv(SumFrom([c \in Classes |-> v[c]], 0, Zero), Num(6))

\* C15: evaluate's precision, recall and f1Score are each the sum of the six
\* per-class values divided by 6, where for class c tp = matrix[c][c], fp is
\* the sum of column c over the other rows and fn the sum of row c over the
\* other columns; classes absent from the test set count in the divisor.
C15_MacroAverages ==
    out.op = "evaluate" =>
        LET m == out.result.confusionMatrix
            tp == [c \in Classes |-> m[c][c]]
            fp == [c \in Classes |->
                     NatSum([r \in Classes |-> m[r][c]], Classes \ {c})]
            fn == [c \in Classes |->
                     NatSum([j \in Classes |-> m[c][j]], Classes \ {c})]
            p == [c \in Classes |-> Ratio(Num(tp[c]), Num(tp[c] + fp[c]))]
            r == [c \in Classes |-> Ratio(Num(tp[c]), Num(tp[c] + fn[c]))]
            f == [c \in Classes |->
                    Ratio(FMul(Num(2), FMul(p[c], r[c])), FAdd(p[c], r[c]))]
        IN  /\ out.result.precision = MacroAverage(p)
            /\ out.result.recall = MacroAverage(r)
            /\ out.result.f1Score = MacroAverage(f)
C15_Witness ==
    /\ out.op = "evaluate"
    /\ LET m == out.result.confusionMatrix
       IN  /\ \E c \in Classes : m[c][c] > 0 /\ \E r \in Classes \ {c} : m[r][c] > 0
           /\ \E c \in Classes : \A j \in Classes : m[c][j] = 0
    /\ FLt(Zero, out.result.f1Score)
    /\ FLt(out.result.precision, out.result.recall)

\* the jitter values Math.random() * 0.1 can take: 0 up to, not including, 0.1
Jitters == {Fin(j) : j \in 0..(Scale \div 10 - 1)}

\* C16: every evaluate call returns a ROC sequence of exactly 11 points
\* whose i-th point has fpr = i/10 and tpr = min(1, fpr + 0.1 + jitter) with
\* jitter in [0, 0.1), so tpr never exceeds 1; the sequence is one that
\* evaluate also returns with no test records and no trained model.
C16_RocIsSynthetic ==
    out.op = "evaluate" =>
        LET roc == out.result.rocCurve
        IN  /\ DOMAIN roc = 0..10
            /\ \A i \in DOMAIN roc :
                /\ roc[i].fpr = FDiv(Num(i), Num(10))
                /\ \E jitter \in Jitters :
                    roc[i].tpr =
                        Min2(One, FAdd(FAdd(roc[i].fpr, FDiv(One, Num(10))), jitter))
                /\ FLe(roc[i].tpr, One)
            /\ \E seed \in Seeds :
                roc = evaluate(NewClassifier, EmptyArr, seed).rocCurve
C16_Witness ==
    /\ out.op = "evaluate"
    /\ Trained
    /\ Length(out.testData) > 0
    /\ out.result.rocCurve[9].tpr = One
    /\ FLt(FDiv(One, Num(10)), out.result.rocCurve[0].tpr)
    /\ FSub(out.result.rocCurve[1].tpr, out.result.rocCurve[0].tpr) # FDiv(One, Num(10))

\* C20: train fits the model stored at index c on binary labels that are 1
\* exactly for the records whose class label is c, all six against the same
\* normalized matrix; every training record with a label in 0..5 is a
\* positive example for exactly one of the six models.
C20_OneModelPerClassLabel ==
    (out.op = "train" /\ ~out.threw) =>
        LET data == out.data
            rows == [r \in DOMAIN data |-> FeatureRow(data[r])]
            matrix == normalizeFeatures(rows, smogPredictor.featureMins,
                                        smogPredictor.featureMaxs)
            positive == [c \in Classes |->
                            [r \in DOMAIN data |->
                                IF data[r].smogLevel.value = c THEN 1 ELSE 0]]
        IN  /\ \E seed \in Seeds : \A c \in Classes :
                LET start == [weights |-> [j \in 0..(NumFeatures - 1) |->
                                              InitialWeight(seed, c, j)],
                              bias |-> Zero]
                    fit == Epochs(matrix, positive[c], start, 0)
                IN  /\ smogPredictor.models[c].weights = fit.weights
                    /\ smogPredictor.models[c].bias = fit.bias
            /\ \A r \in DOMAIN data :
                data[r].smogLevel.value \in Classes =>
                    Cardinality({c \in Classes : positive[c][r] = 1}) = 1
C20_Witness ==
    /\ out.op = "train"
    /\ ~out.threw
    /\ FiniteModels(smogPredictor.models)
    /\ \E r, q \in DOMAIN out.data :
        out.data[r].smogLevel.value # out.data[q].smogLevel.value
    /\ \E c \in Classes :
        /\ \E r \in DOMAIN out.data : out.data[r].smogLevel.value = c
        /\ \A d \in Classes :
            (\A r \in DOMAIN out.data : out.data[r].smogLevel.value # d)
                => FLt(smogPredictor.models[d].bias, smogPredictor.models[c].bias)

\* how many entries of the array a are the record d
Occurrences(a, d) == Cardinality({i \in DOMAIN a : a[i] = d})

\* C17: trainModel splits the n records, in the caller's order, into a
\* training prefix of floor(0.8 * n) records and a test suffix of the rest;
\* the parts are disjoint and together hold every record exactly once;
\* train and evaluate work on exactly the part they were handed.
C17_SplitIsPrefixAndSuffix ==
    out.op = "trainModel" =>
        LET all == out.trainingData
            n == Length(all)
            k == Length(out.trainData)
        IN  /\ 10 * k <= 8 * n /\ 8 * n < 10 * (k + 1)
            /\ DOMAIN out.trainData = 0..(k - 1)
            /\ DOMAIN out.testData = 0..(n - k - 1)
            /\ \A i \in DOMAIN out.trainData : out.trainData[i] = all[i]
            /\ \A i \in DOMAIN out.testData : out.testData[i] = all[k + i]
            /\ \A i \in DOMAIN all :
                Occurrences(out.trainData, all[i])
                    + Occurrences(out.testData, all[i]) = Occurrences(all, all[i])
            /\ ~out.threw =>
                \E seed \in Seeds :
                    /\ smogPredictor = train(NewClassifier, out.trainData, seed)
                    /\ dashboard.metrics =
                           evaluate(smogPredictor, out.testData, seed)
C17_Witness ==
    /\ out.op = "trainModel"
    /\ ~out.threw
    /\ dashboard.modelTrained
    /\ Length(out.trainData) >= 2
    /\ Length(out.testData) >= 1
    /\ 10 * Length(out.trainData) < 8 * Length(out.trainingData)
    /\ out.trainData[0] # Generated(0)

\* the records of the last generator call
Produced ==
    IF out.op = "generateRealisticAirQualityData"
    THEN {out.result[i] : i \in DOMAIN out.result} ELSE {}

\* C18: every generated record carries an integer class label in 0..5,
\* obtained from its AQI by the table Good(0) AQI <= 50, Moderate(1) <= 100,
\* Unhealthy for Sensitive(2) <= 150, Unhealthy(3) <= 200, Very
\* Unhealthy(4) <= 300, Hazardous(5) above 300.
C18_LabelFollowsAqiTable ==
    \A rec \in Produced :
        /\ rec.smogLevel.value \in 0..5
        /\ rec.smogLevel.value = 0 <=> rec.aqi <= 50
        /\ rec.smogLevel.value = 1 <=> (50 < rec.aqi /\ rec.aqi <= 100)
        /\ rec.smogLevel.value = 2 <=> (100 < rec.aqi /\ rec.aqi <= 150)
        /\ rec.smogLevel.value = 3 <=> (150 < rec.aqi /\ rec.aqi <= 200)
        /\ rec.smogLevel.value = 4 <=> (200 < rec.aqi /\ rec.aqi <= 300)
        /\ rec.smogLevel.value = 5 <=> 300 < rec.aqi
C18_Witness ==
    \E rec \in Produced :
        /\ rec.smogLevel.value = 2
        /\ rec.aqi > 120
        /\ rec.city = "Bangkok"

\* C19: every generated record has visibility within the documented range
\* of 0.5 to 25 km.
C19_VisibilityInDocumentedRange ==
    \A rec \in Produced :
        50 <= rec.visibility /\ rec.visibility <= 25 * Hundred

\* C21: after train on a non-empty record sequence the stored min of each
\* feature is the smallest and the stored max the largest value of that
\* feature over the training records, so max[i] >= min[i], and every
\* training value normalizes into [0,1] when max[i] > min[i].
C21_BoundsAreColumnExtremes ==
    (out.op = "train" /\ ~out.threw) =>
        \A i \in 0..(NumFeatures - 1) :
            LET lo == smogPredictor.featureMins[i]
                hi == smogPredictor.featureMaxs[i]
                column == {Reading(out.data[r], i) : r \in DOMAIN out.data}
            IN  /\ lo \in column /\ \A v \in column : FLe(lo, v)
                /\ hi \in column /\ \A v \in column : FLe(v, hi)
                /\ FLe(lo, hi)
                /\ FLt(lo, hi) =>
                    \A v \in column :
                        /\ FLe(Zero, FDiv(FSub(v, lo), FSub(hi, lo)))
                        /\ FLe(FDiv(FSub(v, lo), FSub(hi, lo)), One)
C21_Witness ==
    /\ out.op = "train"
    /\ ~out.threw
    /\ Length(out.data) = MaxRecords
    /\ ConstantFeatures(out.data) = {}
    /\ Reading(out.data[0], 0) # smogPredictor.featureMins[0]
    /\ Reading(out.data[0], 3) # smogPredictor.featureMaxs[3]

\* C29: a train call that fails on an empty record sequence leaves the
\* classifier as it was: bounds and models of the previous successful train
\* stay, and predict returns for every input what it returned before.
C29_FailedTrainChangesNothing ==
    [][(out'.op = "train" /\ out'.threw) =>
          /\ smogPredictor'.models = smogPredictor.models
          /\ smogPredictor'.featureMins = smogPredictor.featureMins
          /\ smogPredictor'.featureMaxs = smogPredictor.featureMaxs
          /\ \A input \in PredictionInputs :
              predict(smogPredictor', input) = predict(smogPredictor, input)]_vars
C29_Witness ==
    /\ out.op = "train"
    /\ out.threw
    /\ Trained
    /\ FiniteModels(smogPredictor.models)

\* C30: predict is deterministic and independent of history: the result of
\* a predict call is determined by the classifier and the input; a predict,
\* evaluate or getFeatureImportance call leaves the classifier as it was,
\* and after it predict returns for the input of the predict call before it
\* the result that call returned.
C30_PredictIsHistoryFree ==
    [][out'.op \in {"predict", "evaluate", "getFeatureImportance"} =>
          /\ smogPredictor' = smogPredictor
          /\ out'.op = "predict" =>
              out'.result = predict(smogPredictor', out'.input)
          /\ out.op = "predict" =>
              predict(smogPredictor', out.input) = out.result]_vars
C30_Witness ==
    /\ out.op = "predict"
    /\ Trained
    /\ FiniteModels(smogPredictor.models)
    /\ out.result.prediction \in Classes
    /\ FLt(out.result.confidence, One)

\* C26: under every interleaving of input changes, tab switches and the
\* training timer, the Dashboard holds a result of predict or of
\* getFeatureImportance only when train has completed on the classifier:
\* a prediction or a ranking is there only with modelTrained set, and
\* modelTrained is set only with the six models fitted and the metrics of
\* evaluate stored.
C26_NoCallBeforeTrain ==
    /\ dashboard.prediction # Null =>
          /\ dashboard.modelTrained
          /\ dashboard.prediction.prediction \in Classes
    /\ dashboard.featureImportance # Null =>
          /\ dashboard.modelTrained
          /\ Length(dashboard.featureImportance) = NumFeatures
    /\ dashboard.modelTrained => Trained /\ dashboard.metrics # Null
C26_Witness ==
    /\ dashboard.prediction # Null
    /\ dashboard.input # DefaultInput
    /\ dashboard.modelTrained
    /\ Trained

\* C27: once the Dashboard has mounted and its timer fires, the training
\* flow reaches isTraining = false with modelTrained = true and metrics
\* non-null; modelTrained always implies metrics non-null, and modelTrained
\* never goes back to false.
C27_TrainingFlowCompletes ==
    /\ dashboard.effectRan ~>
          (/\ ~dashboard.isTraining
           /\ dashboard.modelTrained
           /\ dashboard.metrics # Null)
    /\ [](dashboard.modelTrained => dashboard.metrics # Null)
    /\ [][dashboard.modelTrained => dashboard'.modelTrained]_vars
C27_Witness ==
    /\ dashboard.effectRan
    /\ ~dashboard.isTraining
    /\ dashboard.modelTrained
    /\ dashboard.metrics # Null
    /\ dashboard.timer = Null

\* the PM2.5 concentration of a pass of the loop as calculateAQI receives
\* it, before it is rounded for the record
Concentration(d) ==
    RawPM25(d, 30 * Hundred + d.humidity * 60, d.windSpeed * 15 + 2 * Hundred,
            980 * Hundred + d.pressure * 60)
\* the concentrations the rows of the AQI table begin and end at
RowEnds ==
    {breakpoints[b].low : b \in DOMAIN breakpoints}
        \cup {breakpoints[b].high : b \in DOMAIN breakpoints}

\* C28: the AQI and the class label are monotone non-decreasing in the
\* PM2.5 concentration: for the concentration a of a generated record and
\* any concentration b at which a row of the AQI table begins or ends,
\* a <= b gives AQI and label of a not above those of b, and b <= a gives
\* AQI and label of b not above those of a.
C28_LabelMonotoneInPM25 ==
    \A rec \in Produced :
        LET a == Concentration(out.draws)
        IN  \A b \in RowEnds :
                LET aqi == calculateAQI(b)
                    value == getSmogLevel(aqi).value
                IN  /\ a <= b => rec.aqi <= aqi /\ rec.smogLevel.value <= value
                    /\ b <= a => aqi <= rec.aqi /\ value <= rec.smogLevel.value

\* the sum term(0) + ... + term(n - 1), added in this order to start
RECURSIVE SumOver(_, _, _)
SumOver(term, n, start) ==
    IF n = 0 THEN start
    ELSE FAdd(SumOver(term, n - 1, start), term[n - 1])
\* p_i: the sigmoid of bias + sum_j x_ij * w_j with the weights and bias m
Activation(x, m) ==
    sigmoid(SumOver([j \in DOMAIN x |-> FMul(x[j], m.weights[j])],
                    Length(x), m.bias))
\* the mean over the samples of (p_i - y_i) * factor[i], p_i taken with m
MeanError(features, binaryLabels, m, factor) ==
    FDiv(SumOver([i \in DOMAIN features |->
                     FMul(FSub(Activation(features[i], m),
                               Num(binaryLabels[i])), factor[i])],
                 Length(features), Zero),
         Num(Length(features)))
\* w - alpha * (gradient + decay * w)
Descent(w, gradient, decay) ==
    FSub(w, FMul(learningRate, FAdd(gradient, FMul(decay, w))))

\* C23: a pass of the epoch loop sets every weight to
\* w_j - alpha * (grad_j + lambda * w_j) and the bias to b - alpha * grad_b,
\* where grad_j and grad_b are the means over all samples of
\* (p_i - y_i) * x_ij and of (p_i - y_i), with p_i computed from the weights
\* and bias the pass started with; the bias gets no L2 term.
C23_EpochUpdate ==
    out.op = "epoch" =>
        LET x == out.features
            y == out.binaryLabels
            m == out.before
            ones == [i \in DOMAIN x |-> One]
        IN  /\ \A j \in DOMAIN m.weights :
                out.after.weights[j] =
                    Descent(m.weights[j],
                            MeanError(x, y, m, [i \in DOMAIN x |-> x[i][j]]),
                            lambda)
            /\ out.after.bias = Descent(m.bias, MeanError(x, y, m, ones), Zero)
C23_Witness ==
    /\ out.op = "epoch"
    /\ Length(out.features) = 2
    /\ \E i \in DOMAIN out.binaryLabels : out.binaryLabels[i] = 1
    /\ out.before.bias = Num(2)
    /\ IsFin(out.after.bias)
    /\ \E j \in DOMAIN out.after.weights :
          /\ IsFin(out.after.weights[j])
          /\ out.after.weights[j] # out.before.weights[j]

\* C24: the regularization term of the weight update is lambda divided by
\* the number of training examples m:
\* theta_j := theta_j - alpha * [(1/m) * sum_i (h(x_i) - y_i) * x_ij
\*                               + (lambda/m) * theta_j].
C24_RegularizationDividedByM ==
    out.op = "epoch" =>
        LET x == out.features
            y == out.binaryLabels
            m == out.before
        IN  \A j \in DOMAIN m.weights :
                out.after.weights[j] =
                    Descent(m.weights[j],
                            MeanError(x, y, m, [i \in DOMAIN x |-> x[i][j]]),
                            FDiv(lambda, Num(Length(x))))

\* C22: training one binary classifier makes exactly 1000 passes over the
\* rows and then returns a model with trained = true, whatever the data and
\* the initial weights; train on any non-empty record array terminates
\* after exactly 6 x 1000 passes.
C22_TrainRunsAllEpochs ==
    /\ (out.op = "training") ~> (out.op = "trained")
    /\ [](out.op = "training" =>
            /\ out.epoch <= epochs
            /\ out.passes = out.classLabel * epochs + out.epoch
            /\ Length(smogPredictor.models) = out.classLabel)
    /\ [](out.op = "trained" =>
            /\ out.passes = numClasses * epochs
            /\ Length(smogPredictor.models) = numClasses
            /\ \A c \in Classes : smogPredictor.models[c].trained)
    /\ [][Length(smogPredictor'.models) > Length(smogPredictor.models) =>
            out.epoch = 1000 /\ ~LoopRuns(out.epoch)]_vars
C22_Witness ==
    /\ out.op = "trained"
    /\ out.passes = 6000
    /\ Length(out.data) = 2
    /\ FiniteModels(smogPredictor.models)

\* C25: the training for a class reads the shared normalized matrix, the
\* labels and its class and writes its own weights and bias only: with the
\* six trainings interleaved pass by pass in any order, the matrix, the
\* labels and the stored bounds stay those of the records, a pass of one
\* training changes the weights, bias and epoch of no other, and the six
\* models collected are those train produces running the classes in order
\* from the same initial weights.
C25_TrainingsAreIndependent ==
    /\ [](out.op = "interleaved" =>
            LET ex == extractFeatures(out.data)
            IN  /\ out.features =
                       normalizeFeatures(ex.features, ex.mins, ex.maxs)
                /\ out.labels = ex.labels
                /\ smogPredictor.featureMins = ex.mins
                /\ smogPredictor.featureMaxs = ex.maxs
                /\ smogPredictor.models = EmptyArr)
    /\ [](out.op = "interleavedDone" =>
            smogPredictor = train(NewClassifier, out.data, out.seed))
    /\ [][(out.op = "interleaved" /\ out'.op = "interleaved") =>
            \E c \in Classes :
                /\ out'.units[c].epoch = out.units[c].epoch + 1
                /\ \A d \in Classes \ {c} : out'.units[d] = out.units[d]]_vars
C25_Witness ==
    /\ out.op = "interleaved"
    /\ Length(out.data) = 2
    /\ out.units[0].epoch = 0
    /\ out.units[3].epoch = 1
    /\ out.units[5].epoch = MaxEpochs
    /\ \A j \in 0..(NumFeatures - 1) : IsFin(out.units[5].m.weights[j])
    /\ out.units[5].m # InitialModel(out.seed, 5)

=============================================================================
